---- MODULE Spec2Model ----
(***************************************************************************)
(* Model of traductor_ppt.py: the command line entry point (main), the     *)
(* archival copy (mover_a_originales), the translation provider            *)
(* (traducir_texto and its two backends) and the translation pass with its *)
(* save step (traducir_presentacion).                                      *)
(*                                                                         *)
(* Texts are sequences of one-character strings; file names and paths are  *)
(* sequences of tokens ("/" and "." are tokens of their own).  A document  *)
(* is the sequence of its shapes in document order (slide order, then      *)
(* shape order); a shape is [tf, parrafos]; a paragraph is the sequence of *)
(* its content children, each [tipo, text] with tipo "r" (a run) or "fld"  *)
(* (a field, which counts for paragraph.text but is not a run).            *)
(***************************************************************************)
EXTENDS Naturals, Integers, Sequences, FiniteSets, TLC

VARIABLES
    argv,                    \* sys.argv (argv[1] is the program name)
    clave,                   \* os.getenv("OPENAI_API_KEY") is set
    fs,                      \* the files on disk: a set of [ruta, datos, bloqueado]
    pc,                      \* position of the program
    salida,                  \* how main's validation ended
    ruta_archivo,            \* main's ruta_archivo (after mover_a_originales)
    presentacion,            \* the in-memory document
    original,                \* the document as it was opened
    ruta_archivo_traducido,  \* the path the save step targets
    sonda,                   \* what the probe of the output path found
    i,                       \* index of the shape being handled
    j,                       \* index of the paragraph being handled
    total_elementos,         \* total announced to the progress bar
    progreso,                \* the progress bar's counter
    hist,                    \* what happened to each paragraph handled, in order
    visitadas,               \* the shapes whose capability check ran, in order
    intentos,                \* the save attempts, in order
    retorno,                 \* what traducir_presentacion returned
    abierta,                 \* the path handed to Presentation()
    prueba                   \* one call of traducir_texto on its own

vars == <<argv, clave, fs, pc, salida, ruta_archivo, presentacion, original,
          ruta_archivo_traducido, sonda, i, j, total_elementos, progreso,
          hist, visitadas, intentos, retorno, abierta, prueba>>

----------------------------------------------------------------------------
(* Bounds *)

\* nodes (shapes + paragraphs + runs/fields) of a document
MaxNodos == 5
\* length of the texts handed to traducir_texto on its own
MaxTextLen == 2

----------------------------------------------------------------------------
(* Texts *)

Chars == {" ", "a"}

None == <<"None">>

RECURSIVE strip(_)
strip(t) ==
    IF t = <<>> THEN t
    ELSE IF Head(t) = " " THEN strip(Tail(t))
    ELSE IF t[Len(t)] = " " THEN strip(SubSeq(t, 1, Len(t) - 1))
    ELSE t

RECURSIVE TextosDe(_)
TextosDe(n) ==
    IF n = 0 THEN {<<>>}
    ELSE {<<c>> \o t : c \in Chars, t \in TextosDe(n - 1)}

TextosHasta(n) == UNION {TextosDe(k) : k \in 0..n}

----------------------------------------------------------------------------
(* Paths *)

CARPETA_ORIGINALES == <<"originales">>
CARPETA_TRADUCIDOS == <<"traducidos">>

RECURSIVE UltimoIndice(_, _)
UltimoIndice(p, tok) ==
    IF p = <<>> THEN 0
    ELSE IF p[Len(p)] = tok THEN Len(p)
    ELSE UltimoIndice(SubSeq(p, 1, Len(p) - 1), tok)

basename(p) == SubSeq(p, UltimoIndice(p, "/") + 1, Len(p))

dirname(p) ==
    LET k == UltimoIndice(p, "/")
    IN  IF k <= 1 THEN SubSeq(p, 1, k) ELSE SubSeq(p, 1, k - 1)

join(d, n) == d \o <<"/">> \o n

Cwd == <<"/", "trabajo">>

abspath(p) == IF p # <<>> /\ Head(p) = "/" THEN p ELSE join(Cwd, p)

RECURSIVE PuntosIniciales(_)
PuntosIniciales(n) ==
    IF n # <<>> /\ Head(n) = "." THEN 1 + PuntosIniciales(Tail(n)) ELSE 0

splitext(n) ==
    LET k == UltimoIndice(n, ".")
    IN  IF k > PuntosIniciales(n)
        THEN <<SubSeq(n, 1, k - 1), SubSeq(n, k, Len(n))>>
        ELSE <<n, <<>>>>

lowerTok(tok) ==
    CASE tok = "PPTX" -> "pptx"
      [] tok = "PPT"  -> "ppt"
      [] tok = "TXT"  -> "txt"
      [] OTHER        -> tok

lower(p) == [k \in 1..Len(p) |-> lowerTok(p[k])]

endswith(p, suf) ==
    Len(p) >= Len(suf) /\ SubSeq(p, Len(p) - Len(suf) + 1, Len(p)) = suf

Existe(ruta) == \E f \in fs : f.ruta = ruta

----------------------------------------------------------------------------
(* Documents *)

RunTexts == {<<>>, <<" ">>, <<"a">>}

Elementos ==
    {[tipo |-> "r", text |-> t] : t \in RunTexts} \cup {[tipo |-> "fld", text |-> <<"a">>]}

\* paragraphs of exactly n content children
RECURSIVE ParrafosDe(_)
ParrafosDe(n) ==
    IF n = 0 THEN {<<>>}
    ELSE {<<e>> \o p : e \in Elementos, p \in ParrafosDe(n - 1)}

\* sequences of paragraphs of exactly s nodes (a paragraph is a node, and so is each child)
RECURSIVE ListasDeParrafos(_)
ListasDeParrafos(s) ==
    IF s = 0 THEN {<<>>}
    ELSE UNION {{<<p>> \o l : p \in ParrafosDe(k - 1), l \in ListasDeParrafos(s - k)} : k \in 1..s}

\* shapes of exactly s nodes: without a text frame (a picture, a table) or with one
FormasDe(s) ==
    (IF s = 1 THEN {[tf |-> FALSE, parrafos |-> <<>>]} ELSE {})
    \cup {[tf |-> TRUE, parrafos |-> l] : l \in ListasDeParrafos(s - 1)}

RECURSIVE DocsDe(_)
DocsDe(s) ==
    IF s = 0 THEN {<<>>}
    ELSE UNION {{<<f>> \o d : f \in FormasDe(k), d \in DocsDe(s - k)} : k \in 1..s}

Docs == UNION {DocsDe(s) : s \in 0..MaxNodos}

NoDoc == <<[tf |-> FALSE, parrafos |-> <<None>>]>>

----------------------------------------------------------------------------
(* python-pptx: paragraph.text, paragraph.runs *)

RECURSIVE Concat(_)
Concat(ts) == IF ts = <<>> THEN <<>> ELSE Head(ts) \o Concat(Tail(ts))

\* paragraph.text: the text of every content child, in order
TextoParrafo(p) == Concat([k \in 1..Len(p) |-> p[k].text])

\* paragraph.runs: the positions of the children that are runs, in order
RECURSIVE RunsDesde(_, _)
RunsDesde(p, k) ==
    IF k > Len(p) THEN <<>>
    ELSE (IF p[k].tipo = "r" THEN <<k>> ELSE <<>>) \o RunsDesde(p, k + 1)

Runs(p) == RunsDesde(p, 1)

----------------------------------------------------------------------------
(* The translation provider *)

\* what the remote backend can answer
Traducciones == {<<>>, <<"t", " ">>}

Respuestas ==
    {[tipo |-> "str", valor |-> v] : v \in Traducciones}
    \cup {[tipo |-> "none", valor |-> None], [tipo |-> "error", valor |-> None]}

\* mutant: the backend's None is handed on
traducir_texto_google_sin_comprobar(texto, resp) ==
    CASE resp.tipo = "error" -> texto
      [] OTHER               -> resp.valor

traducir_texto_google(texto, resp) ==
    CASE resp.tipo = "error" -> texto
      [] resp.tipo = "none"  -> texto
      [] OTHER               -> resp.valor

\* message.content of None has no strip(): the AttributeError is caught like any failure
traducir_texto_openai(texto, resp) ==
    CASE resp.tipo = "error" -> texto
      [] resp.tipo = "none"  -> texto
      [] OTHER               -> strip(resp.valor)

\* the backend is reached only for a text that is not blank
LlamaBackend(texto) == texto # None /\ texto # <<>> /\ strip(texto) # <<>>

traducir_texto(texto, metodo, resp) ==
    IF ~LlamaBackend(texto) THEN texto
    ELSE IF metodo = <<"openai">> THEN traducir_texto_openai(texto, resp)
    ELSE traducir_texto_google(texto, resp)

----------------------------------------------------------------------------
(* One paragraph of the pass *)

\* line 198: the paragraph is empty
ParrafoVacio(p) == strip(TextoParrafo(p)) = <<>>

\* mutant: the run's text is tested without trimming
RetenidoSinStrip(text) == text # <<>>

\* line 207: the run is kept
Retenido(text) == strip(text) # <<>>

\* runs_info: the positions of the retained runs, in order (lines 205-217)
RECURSIVE RunsInfoDe(_, _)
RunsInfoDe(p, runs) ==
    IF runs = <<>> THEN <<>>
    ELSE (IF Retenido(p[Head(runs)].text) THEN <<Head(runs)>> ELSE <<>>)
         \o RunsInfoDe(p, Tail(runs))

RunsInfo(p) == RunsInfoDe(p, Runs(p))

\* texto_completo: the retained runs' texts, joined with no separator
TextoCompleto(p) == LET info == RunsInfo(p) IN Concat([k \in 1..Len(info) |-> p[info[k]].text])

\* mutant: line 220's check is missing
SinTextoSinComprobar(tc) == FALSE

\* line 220: nothing to translate
SinTexto(tc) == strip(tc) = <<>>

\* mutant: every retained run receives the translation
TextoEscritoEnTodos(k, t) == t

\* the text write number k of the redistribution assigns (lines 232-240)
TextoEscrito(k, t) == IF k = 1 THEN t ELSE <<>>

\* mutant: the sibling runs are not emptied
RedistribuirSoloPrimero(p, info, t, n) ==
    [k \in 1..Len(p) |->
        IF n >= 1 /\ info[1] = k THEN [p[k] EXCEPT !.text = t] ELSE p[k]]

\* mutant: the write that raises has already changed its run
RedistribuirDeMas(p, info, t, n) ==
    LET n1 == IF n < Len(info) THEN n + 1 ELSE n
    IN  [k \in 1..Len(p) |->
            IF \E m \in 1..n1 : info[m] = k
            THEN [p[k] EXCEPT !.text = IF info[1] = k THEN t ELSE <<>>]
            ELSE p[k]]

\* the paragraph after the first n writes of the redistribution of t over info
Redistribuir(p, info, t, n) ==
    [k \in 1..Len(p) |->
        IF \E m \in 1..n : info[m] = k
        THEN [p[k] EXCEPT !.text = TextoEscrito(CHOOSE m \in 1..n : info[m] = k, t)]
        ELSE p[k]]

----------------------------------------------------------------------------
(* One paragraph of the try block of traducir_presentacion (lines 196-240). *)
(* lectura: reading the paragraph or its runs raises; resp: what the        *)
(* backend answers if it is reached; falla: the write that raises (0: none) *)

NoResp == [tipo |-> "-", valor |-> None]

Hecho(estado, llamada, enviado, resp, devuelto, escritos, p) ==
    [estado |-> estado, llamada |-> llamada, enviado |-> enviado, resp |-> resp,
     devuelto |-> devuelto, escritos |-> escritos, parrafo |-> p]

ProcesarParrafo(p, metodo, lectura, resp, falla) ==
    IF lectura THEN Hecho("abortado", FALSE, None, NoResp, None, 0, p)
    ELSE IF ParrafoVacio(p) THEN Hecho("omitido", FALSE, None, NoResp, None, 0, p)
    ELSE
      LET info == RunsInfo(p)
          tc   == TextoCompleto(p)
      IN  IF SinTexto(tc) THEN Hecho("omitido", FALSE, None, NoResp, None, 0, p)
          ELSE
            LET tt == traducir_texto(tc, metodo, resp)
                r  == IF LlamaBackend(tc) THEN resp ELSE NoResp
            IN  IF tt = None THEN Hecho("omitido", TRUE, tc, r, tt, 0, p)
                \* runs_info[0] of an empty list: IndexError
                ELSE IF info = <<>> THEN Hecho("abortado", TRUE, tc, r, tt, 0, p)
                ELSE IF falla \in 1..Len(info)
                THEN Hecho("abortado", TRUE, tc, r, tt, falla - 1,
                           Redistribuir(p, info, tt, falla - 1))
                ELSE Hecho("traducido", TRUE, tc, r, tt, Len(info),
                           Redistribuir(p, info, tt, Len(info)))

----------------------------------------------------------------------------
(* main's reading of the command line *)

metodo_traduccion == IF Len(argv) > 4 THEN argv[5] ELSE <<"google">>

idioma_destino == argv[3]

\* mutant: the credential check is missing
ValidacionSinClave(args, key, existe) ==
    IF Len(args) < 3 \/ args[2] \in {<<"-h">>, <<"--help">>} THEN "ayuda"
    ELSE IF (IF Len(args) > 4 THEN args[5] ELSE <<"google">>)
            \notin {<<"google">>, <<"openai">>} THEN "metodo"
    ELSE IF ~existe THEN "noexiste"
    ELSE IF ~(endswith(lower(args[2]), <<".", "pptx">>) \/ endswith(lower(args[2]), <<".", "ppt">>))
         THEN "extension"
    ELSE "ok"

\* lines 324-352: "ok", or the check that ended main
Validacion(args, key, existe) ==
    IF Len(args) < 3 \/ args[2] \in {<<"-h">>, <<"--help">>} THEN "ayuda"
    ELSE IF (IF Len(args) > 4 THEN args[5] ELSE <<"google">>)
            \notin {<<"google">>, <<"openai">>} THEN "metodo"
    ELSE IF ~existe THEN "noexiste"
    ELSE IF ~(endswith(lower(args[2]), <<".", "pptx">>) \/ endswith(lower(args[2]), <<".", "ppt">>))
         THEN "extension"
    ELSE IF Len(args) > 4 /\ args[5] = <<"openai">> /\ ~key THEN "clave"
    ELSE "ok"

\* mutant: the translated file keeps the input's extension
NombreTraducidoConExtension(ruta, idioma, conMarca) ==
    join(CARPETA_TRADUCIDOS,
         splitext(basename(ruta))[1] \o <<"_traducido_">> \o idioma
         \o (IF conMarca THEN <<"_", "AAAAMMDD_HHMMSS">> ELSE <<>>) \o splitext(basename(ruta))[2])

\* lines 161-166 and 177-179: the name of the translated file
NombreTraducido(ruta, idioma, conMarca) ==
    join(CARPETA_TRADUCIDOS,
         splitext(basename(ruta))[1] \o <<"_traducido_">> \o idioma
         \o (IF conMarca THEN <<"_", "AAAAMMDD_HHMMSS">> ELSE <<>>) \o <<".", "pptx">>)

Archivo(ruta, datos, bloqueado) == [ruta |-> ruta, datos |-> datos, bloqueado |-> bloqueado]

Bloqueado(ruta) == \E f \in fs : f.ruta = ruta /\ f.bloqueado

Sin(archivos, ruta) == {f \in archivos : f.ruta # ruta}

----------------------------------------------------------------------------
(* Initial states *)

Prog == <<"traductor_ppt", ".", "py">>

Argvs ==
    { <<Prog>>,
      <<Prog, <<"-h">>>>,
      <<Prog, <<"--help">>, <<"es">>>>,
      <<Prog, <<"foo", "/", "bar", ".", "pptx">>, <<"es">>>>,
      <<Prog, <<"foo", "/", "bar", ".", "txt">>, <<"es">>>>,
      <<Prog, <<"foo", "/", "bar", ".", "pptx">>, <<"es">>, <<"auto">>, <<"deepl">>>>,
      <<Prog, <<"originales", "/", "v1", ".", "bar", ".", "PPT">>, <<"en">>, <<"es">>, <<"openai">>>> }

SinPrueba == [texto |-> None, metodo |-> None, resp |-> NoResp, resultado |-> None, hecho |-> FALSE]

Entrada == <<"bytes">>

Init ==
    /\ argv \in Argvs
    \* the credential matters only to a request for the openai method
    /\ clave \in IF Len(argv) > 4 /\ argv[5] = <<"openai">> THEN BOOLEAN ELSE {FALSE}
    /\ fs \in IF Len(argv) < 3 THEN {{}}
              ELSE {ent \cup sal :
                      ent \in {{}, {Archivo(argv[2], Entrada, FALSE)}},
                      sal \in {{}} \cup {{Archivo(NombreTraducido(argv[2], argv[3], FALSE), <<"viejo">>, b)} :
                                            b \in BOOLEAN}}
    /\ pc = "main"
    /\ salida = "-"
    /\ ruta_archivo = None
    /\ presentacion = NoDoc
    /\ original = NoDoc
    /\ ruta_archivo_traducido = None
    /\ sonda = "-"
    /\ i = 0
    /\ j = 0
    /\ total_elementos = 0
    /\ progreso = 0
    /\ hist = <<>>
    /\ visitadas = <<>>
    /\ intentos = <<>>
    /\ retorno = <<"-">>
    /\ abierta = None
    /\ prueba = SinPrueba

----------------------------------------------------------------------------
(* main and mover_a_originales *)

\* main, lines 324-352: the validation gate
Main ==
    /\ pc = "main"
    /\ salida' = Validacion(argv, clave, Len(argv) >= 2 /\ Existe(argv[2]))
    /\ pc' = IF salida' = "ok" THEN "mover" ELSE "fin"
    /\ ruta_archivo' = IF salida' = "ok" THEN argv[2] ELSE ruta_archivo
    /\ UNCHANGED <<abierta, argv, clave, fs, presentacion, original, ruta_archivo_traducido, sonda,
                   i, j, total_elementos, progreso, hist, visitadas, intentos, retorno, prueba>>

\* mover_a_originales, lines 287-300: the path it returns
NuevaRuta(ruta) ==
    IF dirname(abspath(ruta)) = abspath(CARPETA_ORIGINALES) THEN ruta
    ELSE join(CARPETA_ORIGINALES, basename(ruta))

\* mutant: the file is moved, as the function's name says
CopiarMoviendo(archivos, origen, destino) ==
    IF origen = destino THEN archivos
    ELSE Sin(Sin(archivos, destino), origen)
         \cup {Archivo(destino, f.datos, FALSE) : f \in {g \in archivos : g.ruta = origen}}

\* shutil.copy2: the files after copying origen to destino
Copiar(archivos, origen, destino) ==
    IF origen = destino THEN archivos
    ELSE Sin(archivos, destino)
         \cup {Archivo(destino, f.datos, FALSE) : f \in {g \in archivos : g.ruta = origen}}

\* main, line 355
MoverAOriginales ==
    /\ pc = "mover"
    /\ ruta_archivo' = NuevaRuta(ruta_archivo)
    /\ fs' = Copiar(fs, ruta_archivo, ruta_archivo')
    /\ pc' = "abrir"
    /\ UNCHANGED <<abierta, argv, clave, salida, presentacion, original, ruta_archivo_traducido, sonda,
                   i, j, total_elementos, progreso, hist, visitadas, intentos, retorno, prueba>>

----------------------------------------------------------------------------
(* traducir_presentacion *)

\* mutant: the probe's finding is ignored
RutaInicialSinSonda(ruta, idioma, enUso) == NombreTraducido(ruta, idioma, FALSE)

\* lines 165-180: the path to save to, given what the probe of the plain path finds
RutaInicial(ruta, idioma, enUso) == NombreTraducido(ruta, idioma, enUso)

\* line 183
TotalElementos(doc) == Cardinality({k \in 1..Len(doc) : doc[k].tf})

\* lines 158-186: open the document (which may fail), name the output, probe it, count
Abrir ==
    /\ pc = "abrir"
    /\ abierta' = ruta_archivo
    /\ \/ /\ retorno' = None
          /\ pc' = "fin"
          /\ UNCHANGED <<presentacion, original, ruta_archivo_traducido, sonda, i, total_elementos>>
       \/ \E d \in Docs :
            /\ presentacion' = d
            /\ original' = d
            /\ sonda' = IF Bloqueado(NombreTraducido(ruta_archivo, idioma_destino, FALSE))
                        THEN "en uso" ELSE "libre"
            /\ ruta_archivo_traducido' = RutaInicial(ruta_archivo, idioma_destino, sonda' = "en uso")
            /\ total_elementos' = TotalElementos(d)
            /\ i' = 1
            /\ pc' = "forma"
            /\ UNCHANGED retorno
    /\ UNCHANGED <<argv, clave, fs, salida, ruta_archivo, j, progreso, hist, visitadas,
                   intentos, prueba>>

\* lines 189-193 and 250: the next shape and its capability check, which may raise
\* outside the shape's try block; after the last shape the pass is over
Forma ==
    /\ pc = "forma"
    /\ IF i > Len(presentacion)
       THEN /\ pc' = "guardar"
            /\ UNCHANGED <<i, j, progreso, visitadas, retorno>>
       ELSE /\ visitadas' = Append(visitadas, i)
            /\ \/ /\ retorno' = None
                  /\ pc' = "fin"
                  /\ UNCHANGED <<i, j, progreso>>
               \/ /\ ~presentacion[i].tf
                  /\ progreso' = progreso + 1
                  /\ i' = i + 1
                  /\ UNCHANGED <<pc, j, retorno>>
               \/ /\ presentacion[i].tf
                  /\ j' = 1
                  /\ pc' = "parrafo"
                  /\ UNCHANGED <<i, progreso, retorno>>
    /\ UNCHANGED <<abierta, argv, clave, fs, salida, ruta_archivo, presentacion, original,
                   ruta_archivo_traducido, sonda, total_elementos, hist, intentos, prueba>>

\* mutant: the paragraph loop does not advance past a paragraph it handled
ParrafoSinAvanzar ==
    /\ pc = "parrafo"
    /\ LET ps == presentacion[i].parrafos
       IN  IF j > Len(ps)
           THEN /\ progreso' = progreso + 1
                /\ i' = i + 1
                /\ pc' = "forma"
                /\ UNCHANGED <<j, presentacion, hist>>
           ELSE \E lectura \in BOOLEAN, resp \in Respuestas, falla \in 0..Len(ps[j]) :
                  LET h == ProcesarParrafo(ps[j], metodo_traduccion, lectura, resp, falla)
                  IN  /\ presentacion' = [presentacion EXCEPT ![i].parrafos[j] = h.parrafo]
                      /\ hist' = Append(hist, [forma |-> i, num |-> j, estado |-> h.estado,
                                               llamada |-> h.llamada, enviado |-> h.enviado,
                                               resp |-> h.resp, devuelto |-> h.devuelto,
                                               escritos |-> h.escritos])
                      /\ IF h.estado = "abortado"
                         THEN i' = i + 1 /\ pc' = "forma" /\ j' = j
                         ELSE UNCHANGED <<i, j, pc>>
                      /\ UNCHANGED progreso
    /\ UNCHANGED <<abierta, argv, clave, fs, salida, ruta_archivo, original, ruta_archivo_traducido,
                   sonda, total_elementos, visitadas, intentos, retorno, prueba>>

\* lines 196-247: one paragraph of the shape; an exception ends the shape without
\* the progress update; after the last paragraph the counter advances
Parrafo ==
    /\ pc = "parrafo"
    /\ LET ps == presentacion[i].parrafos
       IN  IF j > Len(ps)
           THEN /\ progreso' = progreso + 1
                /\ i' = i + 1
                /\ pc' = "forma"
                /\ UNCHANGED <<j, presentacion, hist>>
           ELSE \E lectura \in BOOLEAN, resp \in Respuestas, falla \in 0..Len(ps[j]) :
                  LET h == ProcesarParrafo(ps[j], metodo_traduccion, lectura, resp, falla)
                  IN  /\ presentacion' = [presentacion EXCEPT ![i].parrafos[j] = h.parrafo]
                      /\ hist' = Append(hist, [forma |-> i, num |-> j, estado |-> h.estado,
                                               llamada |-> h.llamada, enviado |-> h.enviado,
                                               resp |-> h.resp, devuelto |-> h.devuelto,
                                               escritos |-> h.escritos])
                      /\ IF h.estado = "abortado"
                         THEN i' = i + 1 /\ pc' = "forma" /\ j' = j
                         ELSE j' = j + 1 /\ UNCHANGED <<i, pc>>
                      /\ UNCHANGED progreso
    /\ UNCHANGED <<abierta, argv, clave, fs, salida, ruta_archivo, original, ruta_archivo_traducido,
                   sonda, total_elementos, visitadas, intentos, retorno, prueba>>

Traducida == <<"traducida">>

\* presentacion.save: it cannot succeed on a file that is in use
ResultadosDeGuardar(ruta) == IF Bloqueado(ruta) THEN {"permiso", "otro"} ELSE {"ok", "permiso", "otro"}

\* lines 253-263 and 272-274: the first save
Guardar ==
    /\ pc = "guardar"
    /\ \E r \in ResultadosDeGuardar(ruta_archivo_traducido) :
        /\ intentos' = Append(intentos, [ruta |-> ruta_archivo_traducido, resultado |-> r])
        /\ CASE r = "ok" ->
                  /\ fs' = Sin(fs, ruta_archivo_traducido)
                           \cup {Archivo(ruta_archivo_traducido, Traducida, FALSE)}
                  /\ retorno' = ruta_archivo_traducido
                  /\ pc' = "fin"
                  /\ UNCHANGED ruta_archivo_traducido
             [] r = "permiso" ->
                  /\ ruta_archivo_traducido' = NombreTraducido(ruta_archivo, idioma_destino, TRUE)
                  /\ pc' = "reintento"
                  /\ UNCHANGED <<fs, retorno>>
             [] OTHER ->
                  /\ retorno' = None
                  /\ pc' = "fin"
                  /\ UNCHANGED <<fs, ruta_archivo_traducido>>
    /\ UNCHANGED <<abierta, argv, clave, salida, ruta_archivo, presentacion, original, sonda, i, j,
                   total_elementos, progreso, hist, visitadas, prueba>>

\* lines 264-270: the retry under the alternate name
Reintentar ==
    /\ pc = "reintento"
    /\ \E r \in ResultadosDeGuardar(ruta_archivo_traducido) :
        /\ intentos' = Append(intentos, [ruta |-> ruta_archivo_traducido, resultado |-> r])
        /\ IF r = "ok"
           THEN /\ fs' = Sin(fs, ruta_archivo_traducido)
                         \cup {Archivo(ruta_archivo_traducido, Traducida, FALSE)}
                /\ retorno' = ruta_archivo_traducido
           ELSE /\ retorno' = None
                /\ UNCHANGED fs
        /\ pc' = "fin"
    /\ UNCHANGED <<abierta, argv, clave, salida, ruta_archivo, presentacion, original,
                   ruta_archivo_traducido, sonda, i, j, total_elementos, progreso, hist,
                   visitadas, prueba>>

Next ==
    \/ Main
    \/ MoverAOriginales
    \/ Abrir
    \/ Forma
    \/ Parrafo
    \/ Guardar
    \/ Reintentar

Spec == Init /\ [][Next]_vars

----------------------------------------------------------------------------
(* traducir_texto on its own: any text, any method, any backend outcome *)

Metodos == {<<"google">>, <<"openai">>, <<"deepl">>}

RespuestasDePrueba ==
    {[tipo |-> "str", valor |-> v] : v \in TextosHasta(MaxTextLen)}
    \cup {[tipo |-> "none", valor |-> None], [tipo |-> "error", valor |-> None]}

InitTexto ==
    /\ argv = <<Prog>>
    /\ clave = FALSE
    /\ fs = {}
    /\ pc = "texto"
    /\ salida = "-"
    /\ ruta_archivo = None
    /\ presentacion = NoDoc
    /\ original = NoDoc
    /\ ruta_archivo_traducido = None
    /\ sonda = "-"
    /\ i = 0
    /\ j = 0
    /\ total_elementos = 0
    /\ progreso = 0
    /\ hist = <<>>
    /\ visitadas = <<>>
    /\ intentos = <<>>
    /\ retorno = <<"-">>
    /\ abierta = None
    /\ prueba \in {[texto |-> t, metodo |-> m, resp |-> r, resultado |-> None, hecho |-> FALSE] :
                     t \in TextosHasta(MaxTextLen), m \in Metodos, r \in RespuestasDePrueba}

\* one call of traducir_texto (lines 122-141)
TraducirTexto ==
    /\ pc = "texto"
    /\ prueba' = [prueba EXCEPT !.resultado = traducir_texto(prueba.texto, prueba.metodo, prueba.resp),
                                !.hecho = TRUE]
    /\ pc' = "fin"
    /\ UNCHANGED <<abierta, argv, clave, fs, salida, ruta_archivo, presentacion, original,
                   ruta_archivo_traducido, sonda, i, j, total_elementos, progreso, hist,
                   visitadas, intentos, retorno>>

NextTexto == TraducirTexto

SpecTexto == InitTexto /\ [][NextTexto]_vars

----------------------------------------------------------------------------
(* Properties *)

ParrafoActual(h) == presentacion[h.forma].parrafos[h.num]

ParrafoOriginal(h) == original[h.forma].parrafos[h.num]

Entradas == {hist[k] : k \in 1..Len(hist)}

\* the texts of the children of p at the positions pos, joined in order
TextoDe(p, pos) == Concat([k \in 1..Len(pos) |-> p[pos[k]].text])

\* C1: if the backend raises during the translate call for a paragraph, every run
\* of that paragraph has the same text after the paragraph is processed as before.
C1_FallbackKeepsRuns ==
    \A h \in Entradas :
        h.resp.tipo = "error" => ParrafoActual(h) = ParrafoOriginal(h)

C3_ConcatAllRuns ==
    \A h \in Entradas :
        h.estado = "traducido" =>
            TextoDe(ParrafoActual(h), Runs(ParrafoActual(h))) = h.devuelto

\* C3 as amended: after redistribution the texts of the retained runs of a
\* translated paragraph, joined in order, equal the string the provider returned;
\* the texts of all runs do so when every run excluded from aggregation is empty.
C3_ConcatRetainedRuns ==
    \A h \in Entradas :
        h.estado = "traducido" =>
            LET o == ParrafoOriginal(h)
                p == ParrafoActual(h)
            IN  /\ TextoDe(p, RunsInfo(o)) = h.devuelto
                /\ (\A k \in 1..Len(o) : o[k].tipo = "r" /\ ~Retenido(o[k].text) => o[k].text = <<>>)
                      => TextoDe(p, Runs(p)) = h.devuelto

C3_Witness ==
    \E h \in Entradas :
        /\ h.estado = "traducido"
        /\ h.devuelto # <<>>
        /\ Len(RunsInfo(ParrafoOriginal(h))) >= 2
        /\ \E k \in 1..Len(ParrafoOriginal(h)) :
              /\ ParrafoOriginal(h)[k].tipo = "r"
              /\ ParrafoOriginal(h)[k].text = <<>>

\* C4: a paragraph whose full text is empty or whitespace-only, or which has no run
\* that is non-empty after trimming, is never sent to the provider and none of its
\* runs changes.
C4_SkipLogic ==
    original # NoDoc =>
        \A f \in 1..Len(original) : \A n \in 1..Len(original[f].parrafos) :
            LET o == original[f].parrafos[n]
            IN  (strip(TextoParrafo(o)) = <<>>
                   \/ \A k \in 1..Len(o) : o[k].tipo = "r" => strip(o[k].text) = <<>>)
                => /\ presentacion[f].parrafos[n] = o
                   /\ ~\E h \in Entradas : h.forma = f /\ h.num = n /\ h.llamada

C4_Witness ==
    /\ pc = "fin"
    /\ \E h \in Entradas :
          /\ h.estado = "omitido"
          /\ strip(TextoParrafo(ParrafoOriginal(h))) # <<>>
    /\ \E h \in Entradas :
          /\ h.estado = "omitido"
          /\ Runs(ParrafoOriginal(h)) # <<>>
          /\ strip(TextoParrafo(ParrafoOriginal(h))) = <<>>

\* C5 as stated: traducir_texto never returns None; its result is the backend's
\* string when the backend returned one, and the input text when the backend
\* returned nothing or failed.
C5_ProviderContract ==
    prueba.hecho =>
        /\ prueba.resultado # None
        /\ IF LlamaBackend(prueba.texto) /\ prueba.resp.tipo = "str"
           THEN prueba.resultado = prueba.resp.valor
           ELSE prueba.resultado = prueba.texto

\* C5 as amended: traducir_texto never returns None; its result is the backend's
\* string when the backend returned one (with leading and trailing whitespace
\* removed when the method is 'openai'), and the input text when the backend
\* returned nothing, failed or was not reached.
C5_ProviderContractTrimmed ==
    prueba.hecho =>
        /\ prueba.resultado # None
        /\ IF LlamaBackend(prueba.texto) /\ prueba.resp.tipo = "str"
           THEN prueba.resultado = IF prueba.metodo = <<"openai">>
                                   THEN strip(prueba.resp.valor)
                                   ELSE prueba.resp.valor
           ELSE prueba.resultado = prueba.texto

C5_Witness ==
    /\ prueba.hecho
    /\ prueba.metodo = <<"openai">>
    /\ prueba.resp.tipo = "str"
    /\ strip(prueba.resp.valor) # prueba.resp.valor
    /\ strip(prueba.texto) # <<>>

\* C6: once the document is open, an exception raised while handling a shape
\* (capability check, reading, translating, writing) never aborts the pass: when
\* the function ends every shape has been visited, in document order, and a save
\* has been attempted.
C6_FailureContainment ==
    (pc = "fin" /\ original # NoDoc) =>
        /\ visitadas = [k \in 1..Len(original) |-> k]
        /\ Len(intentos) >= 1

\* C7 as stated: when an exception cuts a shape short, every run of that shape has
\* the same text after the pass as before.
C7_ShapeErrorKeepsAllRuns ==
    \A h \in Entradas :
        h.estado = "abortado" => presentacion[h.forma] = original[h.forma]

\* C7 as amended: when an exception cuts a shape short, every run of that shape that
\* had not been rewritten before the exception (every run of the paragraphs after
\* the interrupted one, and in the interrupted paragraph every run excluded from
\* aggregation and every retained run from the one whose write raised onwards) has
\* the same text after the pass as before; the retained runs rewritten before the
\* exception keep what was written (the provider's string in the first, the empty
\* string in the others).
C7_ShapeErrorKeepsUnwrittenRuns ==
    \A h \in Entradas :
        h.estado = "abortado" =>
            LET o    == original[h.forma].parrafos
                a    == presentacion[h.forma].parrafos
                info == RunsInfo(o[h.num])
            IN  /\ Len(a) = Len(o)
                /\ \A m \in (h.num + 1)..Len(o) : a[m] = o[m]
                /\ h.escritos <= Len(info)
                /\ \A q \in 1..Len(o[h.num]) :
                      (~\E m \in 1..h.escritos : info[m] = q) => a[h.num][q] = o[h.num][q]
                /\ \A m \in 1..h.escritos :
                      a[h.num][info[m]].text = IF m = 1 THEN h.devuelto ELSE <<>>

C7_Witness ==
    /\ pc = "fin"
    /\ \E h \in Entradas :
          /\ h.estado = "abortado"
          /\ h.escritos >= 1
          /\ h.devuelto # ParrafoOriginal(h)[RunsInfo(ParrafoOriginal(h))[1]].text

ConMarca(ruta) == \E k \in 1..Len(ruta) : ruta[k] = "AAAAMMDD_HHMMSS"

HuboGuardado == \E k \in 1..Len(intentos) : intentos[k].resultado = "ok"

\* what C8 says besides the number of retries: with the computed output path in
\* use the save targets a timestamped path, there are at most two save attempts,
\* the second only after a failed first, the saved path is returned if an attempt
\* succeeds and no path if none does
C8_Comun ==
    sonda = "en uso" =>
        /\ ruta_archivo_traducido # None => ConMarca(ruta_archivo_traducido)
        /\ \A k \in 1..Len(intentos) : ConMarca(intentos[k].ruta)
        /\ Len(intentos) <= 2
        /\ Len(intentos) = 2 => intentos[1].resultado # "ok"
        /\ pc = "fin" =>
              IF HuboGuardado
              THEN /\ retorno = intentos[Len(intentos)].ruta
                   /\ intentos[Len(intentos)].resultado = "ok"
                   /\ \E f \in fs : f.ruta = retorno /\ f.datos = Traducida
              ELSE retorno = None

\* C8 as stated: with the computed output path in use, a failed save is retried
\* exactly once.
C8_SaveRetry ==
    /\ C8_Comun
    /\ (sonda = "en uso" /\ pc = "fin" /\ Len(intentos) >= 1 /\ intentos[1].resultado # "ok")
          => Len(intentos) = 2

\* C8 as amended: with the computed output path in use, a save that failed with a
\* permission error is retried exactly once; a first save that fails with any other
\* error is not retried and no path is returned.
C8_SaveRetryOnPermission ==
    /\ C8_Comun
    /\ (sonda = "en uso" /\ pc = "fin" /\ Len(intentos) >= 1)
          => /\ Len(intentos) = 2 <=> intentos[1].resultado = "permiso"
             /\ intentos[1].resultado = "otro" => retorno = None

C8_Witness ==
    /\ sonda = "en uso"
    /\ pc = "fin"
    /\ Len(intentos) = 2
    /\ intentos[2].resultado = "ok"
    /\ retorno = intentos[2].ruta

\* the name C9 speaks of, with the extension ext and with or without the timestamp
NombreEsperado(ext, marca) ==
    CARPETA_TRADUCIDOS \o <<"/">> \o splitext(basename(argv[2]))[1] \o <<"_traducido_">> \o argv[3]
    \o (IF marca THEN <<"_", "AAAAMMDD_HHMMSS">> ELSE <<>>) \o ext

EscritosPorElPase == {f \in fs : f.datos = Traducida}

\* C9 as stated: the output is written in the output directory under the input's
\* stem, the marker, the target language code and the input file's own extension.
C9_OutputKeepsExtension ==
    \A f \in EscritosPorElPase :
        \E marca \in BOOLEAN : f.ruta = NombreEsperado(splitext(basename(argv[2]))[2], marca)

\* C9 as amended: the output is written in the output directory under the input's
\* stem, the marker, the target language code, the timestamp suffix when the save
\* fell back to it, and the extension .pptx whatever the input's extension.
C9_OutputIsPptx ==
    \A f \in EscritosPorElPase :
        \E marca \in BOOLEAN : f.ruta = NombreEsperado(<<".", "pptx">>, marca)

C9_Witness ==
    \E f \in EscritosPorElPase :
        /\ splitext(basename(argv[2]))[2] = <<".", "PPT">>
        /\ retorno = f.ruta

\* the invocations C10 speaks of
Rechazada ==
    \/ Len(argv) < 3
    \/ argv[2] \in {<<"-h">>, <<"--help">>}
    \/ metodo_traduccion \notin {<<"google">>, <<"openai">>}
    \/ ~Existe(argv[2])
    \/ lower(SubSeq(argv[2], Len(argv[2]) - 1, Len(argv[2]))) \notin {<<".", "pptx">>, <<".", "ppt">>}
    \/ (metodo_traduccion = <<"openai">> /\ ~clave)

\* C10: an invocation that fails validation ends without the archival copy, without
\* opening the document, without a translation call and without writing an output.
C10_ValidationGate ==
    Rechazada =>
        /\ pc \in {"main", "fin"}
        /\ ruta_archivo = None
        /\ original = NoDoc /\ presentacion = NoDoc
        /\ hist = <<>> /\ visitadas = <<>>
        /\ intentos = <<>>
        /\ EscritosPorElPase = {}
        /\ \A f \in fs : f.ruta = argv[2] \/ f.datos # Entrada

C10_Witness ==
    /\ pc = "fin"
    /\ Rechazada
    /\ Len(argv) >= 3
    /\ Existe(argv[2])
    /\ salida \in {"clave", "extension", "metodo"}

\* the input already lies in the originals directory
YaEnOriginales == dirname(argv[2]) = CARPETA_ORIGINALES

C12_Frame ==
    original # NoDoc =>
        /\ Len(presentacion) = Len(original)
        /\ \A f \in 1..Len(original) :
              /\ presentacion[f].tf = original[f].tf
              /\ Len(presentacion[f].parrafos) = Len(original[f].parrafos)
              /\ \A n \in 1..Len(original[f].parrafos) :
                    LET o == original[f].parrafos[n]
                        p == presentacion[f].parrafos[n]
                    IN  /\ Len(p) = Len(o)
                        /\ Runs(p) = Runs(o)
                        /\ \A k \in 1..Len(o) :
                              /\ p[k].tipo = o[k].tipo
                              /\ (o[k].tipo # "r" \/ strip(o[k].text) = <<>>) => p[k] = o[k]
                              /\ p[k] # o[k] =>
                                    \E h \in Entradas : h.forma = f /\ h.num = n /\ h.llamada

C12_Witness ==
    \E h \in Entradas :
        /\ h.estado = "traducido"
        /\ h.devuelto # <<>>
        /\ LET o == ParrafoOriginal(h)
               p == ParrafoActual(h)
           IN  \E k \in 2..(Len(o) - 1) :
                  /\ o[k] = [tipo |-> "r", text |-> <<" ">>]
                  /\ p[k] = o[k]
                  /\ strip(o[k - 1].text) # <<>> /\ o[k - 1].tipo = "r"
                  /\ strip(o[k + 1].text) # <<>> /\ o[k + 1].tipo = "r"
                  /\ p[k + 1].text = <<>>

\* the entries of h that are provider calls are in strict document order
EnOrden(h) ==
    \A a \in 1..Len(h) : \A b \in (a + 1)..Len(h) :
        (h[a].llamada /\ h[b].llamada) =>
            \/ h[a].forma < h[b].forma
            \/ h[a].forma = h[b].forma /\ h[a].num < h[b].num

\* the writes of every paragraph sent so far are over: where the redistribution
\* ran to its end the first retained run holds the provider's string and the
\* others are empty
YaReescritos ==
    \A h \in Entradas :
        h.estado = "traducido" =>
            LET info == RunsInfo(ParrafoOriginal(h))
            IN  \A m \in 1..Len(info) :
                   ParrafoActual(h)[info[m]].text = IF m = 1 THEN h.devuelto ELSE <<>>

PaseSinExcepciones ==
    /\ pc \in {"guardar", "reintento"} \/ intentos # <<>>
    /\ \A h \in Entradas : h.estado # "abortado"

\* C14: at every point of a pass the progress counter is at most the total announced
\* to the progress bar (the number of shapes with a text frame), and when the pass
\* ends with no shape having raised the counter equals that total.
C14_ProgressAccounting ==
    /\ progreso <= total_elementos
    /\ PaseSinExcepciones => progreso = total_elementos

====
